---- MODULE Spec2Model ----
(***************************************************************************)
(* The Socket.IO chat relay of server/main.py.                             *)
(*                                                                         *)
(* The server object `sio` (main.py:12) holds the set of connected         *)
(* sessions; the three event handlers connect, disconnect and chat_message *)
(* (main.py:37-48) are the only operations.  chat_message issues one       *)
(* `sio.emit` with neither `to` nor `room` nor `skip_sid`, a broadcast to  *)
(* every connected session, and then waits on it; the handler is therefore *)
(* two steps, the call of emit, which issues one send to each session      *)
(* connected at the call, and the resumption after the await.  Handlers of *)
(* other events run between the two.                                       *)
(*                                                                         *)
(* The print calls of the handlers write to stdout only and are not part   *)
(* of the state.                                                           *)
(***************************************************************************)
EXTENDS Naturals, Sequences, FiniteSets

\* Bounds of the model.
MaxLifecycle == 3      \* connect and disconnect events handled
MaxChats == 2          \* chat_message events handled

\* Session ids the transport hands to the handlers.
Sids == {"s1", "s2", "s3"}

\* Payloads (`data`) a client sends with chat_message: the structured payload
\* of the web client, one without `message`, and one without `name` that
\* carries a `sid` field of its own naming another session.
Payloads ==
  { [name |-> "Hamza", message |-> "Hello!"],
    [name |-> "Hamza"],
    [sid |-> "s2", message |-> "Hi"] }

VARIABLES
  connected,    \* sessions connected to sio (the registry)
  sent,         \* every batch of sends issued, in order: [ev, event, data, to],
                \* one send of data under the name event to each session of to
  awaiting,     \* chat_message handlers suspended at the await, by event number
  emitted,      \* history: per chat_message event [sid, data, reg, conc]
  connects,     \* history: connect events handled
  disconnects,  \* history: disconnect events handled
  noops,        \* history: disconnect events handled for an id not connected
  life,         \* history: per id, Len(emitted) and Len(sent) when it last
                \* entered or left the registry
  last          \* history: the last event taken up [op, sid, reg, ev]: reg is the
                \* registry before it, ev its number if a chat_message (0: none)

vars == <<connected, sent, awaiting, emitted, connects, disconnects, noops, life, last>>

----------------------------------------------------------------------------
\* main.py:48, the event name of the broadcast.
EventName == "chat_message"

\* Faulty variant: the connect handler refuses the connection.
RegisterReject(reg, sid) == reg

\* main.py:37-39: connect returns None, so the connection is accepted and the
\* session is connected.
Register(reg, sid) == reg \cup {sid}

\* Faulty variant: a disconnected session stays registered.
UnregisterKeep(reg, sid) == reg

\* Faulty variant: a disconnect for an unknown id drops every session.
UnregisterAbsentResets(reg, sid) == IF sid \in reg THEN reg \ {sid} ELSE {}

\* main.py:41-43: disconnect only logs; the session leaves the server.
Unregister(reg, sid) == reg \ {sid}

\* Faulty variant: the emit is given skip_sid=sid.
RecipientsSkipSender(reg, sid) == reg \ {sid}

\* main.py:48: emit without to/room/skip_sid goes to every connected session,
\* the sender included.
Recipients(reg, sid) == reg

\* Faulty variant: a sid field of the payload overrides the session id.
OutboundTrustPayload(sid, data) ==
  [sid |-> IF "sid" \in DOMAIN data THEN data.sid ELSE sid, message |-> data]

\* main.py:48: the value emitted, {"sid": sid, "message": data}.
Outbound(sid, data) == [sid |-> sid, message |-> data]

\* The sends one emit issues: one per recipient, all carrying the same value,
\* in no fixed order.
Sends(ev, targets, value) ==
  [ev |-> ev, event |-> EventName, data |-> value, to |-> targets]

----------------------------------------------------------------------------
Init ==
  /\ connected = {}
  /\ sent = <<>>
  /\ awaiting = {}
  /\ emitted = <<>>
  /\ connects = 0
  /\ disconnects = 0
  /\ noops = 0
  /\ life = [s \in Sids |-> [ev |-> 0, snd |-> 0]]
  /\ last = [op |-> "init", sid |-> "s1", reg |-> {}, ev |-> 0]

Mark(sid) == [life EXCEPT ![sid] = [ev |-> Len(emitted), snd |-> Len(sent)]]

\* The batches a replay of the first n chat_message events to sid would send.
Replay(sid, n) ==
  [k \in 1..n |-> Sends(k, {sid}, Outbound(emitted[k].sid, emitted[k].data))]

\* Faulty variant: connect replays the earlier messages to the new session.
connect_replay(sid) ==
  /\ connects + disconnects < MaxLifecycle
  /\ sid \notin connected
  /\ connected' = Register(connected, sid)
  /\ sent' = sent \o Replay(sid, Len(emitted))
  /\ connects' = connects + 1
  /\ life' = Mark(sid)
  /\ last' = [op |-> "connect", sid |-> sid, reg |-> connected, ev |-> 0]
  /\ UNCHANGED <<awaiting, emitted, disconnects, noops>>

\* main.py:37-39.  The transport assigns an id no connected session has.
connect(sid) ==
  /\ connects + disconnects < MaxLifecycle
  /\ sid \notin connected
  /\ connected' = Register(connected, sid)
  /\ connects' = connects + 1
  /\ life' = Mark(sid)
  /\ last' = [op |-> "connect", sid |-> sid, reg |-> connected, ev |-> 0]
  /\ UNCHANGED <<sent, awaiting, emitted, disconnects, noops>>

\* main.py:41-43.
disconnect(sid) ==
  /\ connects + disconnects < MaxLifecycle
  /\ connected' = Unregister(connected, sid)
  /\ disconnects' = disconnects + 1
  /\ noops' = IF sid \in connected THEN noops ELSE noops + 1
  /\ life' = IF sid \in connected THEN Mark(sid) ELSE life
  /\ last' = [op |-> "disconnect", sid |-> sid, reg |-> connected, ev |-> 0]
  /\ UNCHANGED <<sent, awaiting, emitted, connects>>

\* A payload with both fields of the web client's message.
Structured(data) == {"name", "message"} \subseteq DOMAIN data

Malformed(data) == ~Structured(data)

\* The history a chat_message step records.
Record(sid, data) ==
  /\ emitted' = Append(emitted, [sid |-> sid, data |-> data, reg |-> connected,
                                 conc |-> awaiting])
  /\ awaiting' = awaiting \cup {Len(emitted) + 1}
  /\ last' = [op |-> "chat_message", sid |-> sid, reg |-> connected,
              ev |-> Len(emitted) + 1]

\* Faulty variant: no emit while another handler is waiting on its own.
chat_message_busy(sid, data) ==
  /\ Len(emitted) < MaxChats
  /\ sid \in connected
  /\ sent' = IF awaiting = {}
             THEN Append(sent, Sends(Len(emitted) + 1, Recipients(connected, sid),
                                     Outbound(sid, data)))
             ELSE sent
  /\ Record(sid, data)
  /\ UNCHANGED <<connected, connects, disconnects, noops, life>>

\* Faulty variant: a payload lacking a field takes the server down, dropping
\* every connection.
chat_message_crash(sid, data) ==
  /\ Len(emitted) < MaxChats
  /\ sid \in connected
  /\ sent' = IF Malformed(data)
             THEN sent
             ELSE Append(sent, Sends(Len(emitted) + 1, Recipients(connected, sid),
                                     Outbound(sid, data)))
  /\ connected' = IF Malformed(data) THEN {} ELSE connected
  /\ Record(sid, data)
  /\ UNCHANGED <<connects, disconnects, noops, life>>

\* Faulty variant: the fields are read by name and a payload lacking one is
\* not broadcast.
chat_message_strict(sid, data) ==
  /\ Len(emitted) < MaxChats
  /\ sid \in connected
  /\ sent' = IF Malformed(data)
             THEN sent
             ELSE Append(sent, Sends(Len(emitted) + 1, Recipients(connected, sid),
                                     Outbound(sid, data)))
  /\ Record(sid, data)
  /\ UNCHANGED <<connected, connects, disconnects, noops, life>>

\* main.py:45-48 up to the await: log, build the value, call sio.emit.
chat_message(sid, data) ==
  /\ Len(emitted) < MaxChats
  /\ sid \in connected
  /\ sent' = Append(sent, Sends(Len(emitted) + 1, Recipients(connected, sid),
                                Outbound(sid, data)))
  /\ Record(sid, data)
  /\ UNCHANGED <<connected, connects, disconnects, noops, life>>

\* main.py:48 after the await: the handler returns.
chat_message_return(ev) ==
  /\ ev \in awaiting
  /\ awaiting' = awaiting \ {ev}
  /\ UNCHANGED <<connected, sent, emitted, connects, disconnects, noops, life, last>>

Next ==
  \/ \E sid \in Sids : connect(sid)
  \/ \E sid \in Sids : disconnect(sid)
  \/ \E sid \in Sids, data \in Payloads : chat_message(sid, data)
  \/ \E ev \in 1..MaxChats : chat_message_return(ev)

Spec == Init /\ [][Next]_vars

----------------------------------------------------------------------------
\* Reading the history.

Events == 1..Len(emitted)

\* The number of sends addressed to session t that event k caused.
Count(k, t) ==
  Cardinality({ i \in 1..Len(sent) : sent[i].ev = k /\ t \in sent[i].to })

\* Event k was sent exactly once to each session registered when it was handled
\* and to no other session.
BroadcastOnce(k) ==
  \A t \in Sids : Count(k, t) = IF t \in emitted[k].reg THEN 1 ELSE 0

\* The batches sent since the last connect or disconnect of session s.
Since(s) == (life[s].snd + 1)..Len(sent)

\* The value of the specification's structured contract: the payload's fields
\* beside sid, at the top level.
Flat(sid, data) == [sid |-> sid, name |-> data.name, message |-> data.message]

----------------------------------------------------------------------------
\* C1: handling one chat_message event from a registered session S results in
\* exactly one send to each registered session, the sender S included, and no
\* send to any other session; with S alone registered there is one send, to S.
C1_BroadcastToAllRegistered ==
  \A k \in Events : emitted[k].sid \in emitted[k].reg /\ BroadcastOnce(k)

C1_Witness ==
  /\ \E k \in Events :
       emitted[k].reg = {emitted[k].sid} /\ Count(k, emitted[k].sid) = 1
  /\ \E k \in Events : emitted[k].reg = Sids /\ BroadcastOnce(k)

\* C2 as stated: a structured payload {name: n, message: m} from S is broadcast
\* under the name chat_message as {sid: S, name: n, message: m}.
C2_FlatValue ==
  \A i \in 1..Len(sent) :
    Structured(emitted[sent[i].ev].data) =>
      /\ sent[i].event = "chat_message"
      /\ sent[i].data = Flat(emitted[sent[i].ev].sid, emitted[sent[i].ev].data)

\* C2 amended: every broadcast is named chat_message and has exactly the two
\* fields sid and message; sid is the originating session's id whatever the
\* payload contains, and the payload is the unchanged value of message.
C2_WrappedValue ==
  \A i \in 1..Len(sent) :
    /\ sent[i].event = "chat_message"
    /\ DOMAIN sent[i].data = {"sid", "message"}
    /\ sent[i].data.sid = emitted[sent[i].ev].sid
    /\ sent[i].data.message = emitted[sent[i].ev].data

C2_Witness ==
  /\ \E i \in 1..Len(sent) :
       /\ Structured(emitted[sent[i].ev].data)
       /\ sent[i].data.message.name = "Hamza"
       /\ sent[i].data.message.message = "Hello!"
  /\ \E i \in 1..Len(sent) :
       /\ "sid" \in DOMAIN emitted[sent[i].ev].data
       /\ emitted[sent[i].ev].data.sid # emitted[sent[i].ev].sid
       /\ sent[i].data.sid = emitted[sent[i].ev].sid

\* C3: when the handlers of two chat_message events from different sessions
\* overlap at the await, each of the two messages is sent exactly once to
\* every session registered at both events, whichever was handled first.
C3_ConcurrentBroadcasts ==
  \A j, k \in Events :
    (j \in emitted[k].conc /\ emitted[j].sid # emitted[k].sid) =>
      \A t \in emitted[j].reg \cap emitted[k].reg :
        Count(j, t) = 1 /\ Count(k, t) = 1

C3_Witness ==
  \E j, k \in Events :
    /\ j \in emitted[k].conc
    /\ emitted[j].sid # emitted[k].sid
    /\ emitted[j].reg \cap emitted[k].reg = Sids
    /\ \A t \in Sids : Count(j, t) = 1 /\ Count(k, t) = 1
    /\ awaiting = {}

\* C4 as stated: the number of registered sessions is the number of connects
\* handled minus the number of disconnects handled.
C4_ConnectsMinusDisconnects ==
  Cardinality(connected) + disconnects = connects

\* C4 amended: the number of registered sessions is the number of connects
\* handled minus the number of disconnects handled for a registered session.
C4_ConnectsMinusEffectiveDisconnects ==
  /\ noops <= disconnects
  /\ Cardinality(connected) + (disconnects - noops) = connects

C4_Witness ==
  connects = 2 /\ disconnects = 1 /\ noops = 0 /\ Cardinality(connected) = 1

\* C5: once the disconnect of session S is handled, S is in no later registry
\* snapshot and is sent no later broadcast until a connect with the same id is
\* handled; the session of that connect is sent only messages broadcast after
\* it registered.
C5_GoneUntilReconnect ==
  /\ last.op = "disconnect" => last.sid \notin connected
  /\ \A s \in Sids \ connected :
       /\ \A k \in Events : k > life[s].ev => s \notin emitted[k].reg
       /\ \A i \in Since(s) : s \notin sent[i].to
  /\ \A s \in connected :
       \A i \in Since(s) : s \in sent[i].to => sent[i].ev > life[s].ev

C5_Witness ==
  \E s \in connected :
    /\ \E i \in 1..life[s].snd : s \in sent[i].to
    /\ \E i \in Since(s) : s \in sent[i].to

\* C6: a disconnect for an id that is not registered leaves the set of
\* registered sessions unchanged.
C6_AbsentDisconnectNoOp ==
  (last.op = "disconnect" /\ last.sid \notin last.reg) => connected = last.reg

C6_Witness ==
  /\ last.op = "disconnect"
  /\ last.sid \notin last.reg
  /\ connected # {}
  /\ noops = 1

\* C7: a chat_message event whose payload lacks `message` leaves the registry
\* as it was, and every later well-formed chat_message event from another
\* session is broadcast once to every registered session.
C7_MalformedDoesNotBlock ==
  /\ (last.ev \in Events /\ "message" \notin DOMAIN emitted[last.ev].data)
       => connected = last.reg
  /\ \A j, k \in Events :
       ( /\ j < k
         /\ "message" \notin DOMAIN emitted[j].data
         /\ Structured(emitted[k].data)
         /\ emitted[j].sid # emitted[k].sid ) => BroadcastOnce(k)

C7_Witness ==
  \E j, k \in Events :
    /\ j < k
    /\ "message" \notin DOMAIN emitted[j].data
    /\ Structured(emitted[k].data)
    /\ emitted[j].sid # emitted[k].sid
    /\ j \notin awaiting
    /\ Cardinality(emitted[k].reg) >= 2
    /\ BroadcastOnce(k)

\* C8 as stated: a chat_message event whose payload lacks `name` or `message`
\* results in no send to any session.
C8_MalformedNotBroadcast ==
  \A k \in Events :
    Malformed(emitted[k].data) => \A t \in Sids : Count(k, t) = 0

\* C8 amended: a chat_message event whose payload lacks `name` or `message` is
\* broadcast like any other, once to every registered session with the payload
\* as the value of message, and nothing but that chat_message broadcast is sent
\* to the sender.
C8_MalformedBroadcastAsIs ==
  \A k \in Events :
    Malformed(emitted[k].data) =>
      /\ BroadcastOnce(k)
      /\ \A i \in 1..Len(sent) :
           sent[i].ev = k =>
             /\ sent[i].event = "chat_message"
             /\ sent[i].data.message = emitted[k].data

C8_Witness ==
  \E j, k \in Events :
    /\ "message" \notin DOMAIN emitted[j].data
    /\ "name" \notin DOMAIN emitted[k].data
    /\ Count(j, emitted[j].sid) = 1
    /\ Count(k, emitted[k].sid) = 1
    /\ awaiting = {}

\* C10: every send to a session T is caused by a chat_message event handled
\* while T was registered; a connect sends nothing, so a session that connects
\* after an event was handled is never sent that event's message.
C10_NoStoreNoReplay ==
  /\ \A i \in 1..Len(sent) :
       /\ sent[i].ev \in Events
       /\ sent[i].to \subseteq emitted[sent[i].ev].reg
  /\ last.op = "connect" => Len(sent) = life[last.sid].snd
  /\ \A s \in connected :
       \A k \in 1..life[s].ev : \A i \in Since(s) :
         sent[i].ev = k => s \notin sent[i].to

C10_Witness ==
  \E s \in connected :
    /\ life[s].ev = 1
    /\ Len(emitted) = 2
    /\ awaiting = {}
    /\ Count(1, s) = 0
    /\ Count(2, s) = 1

====
